---------------------------- MODULE Spec2Model ----------------------------
(***************************************************************************)
(* Key / schema / encoding layer of tonbo:                                 *)
(*   src/src/record/key/num.rs        FloatType, TimestampType             *)
(*   src/src/record/key/primary.rs    PrimaryKey                           *)
(*   src/src/record/runtime/schema.rs DynSchema                            *)
(*                                                                         *)
(* Bit patterns are sequences of 0/1, most significant bit first, so that  *)
(* 32- and 64-bit words keep their full width.                             *)
(***************************************************************************)
EXTENDS Integers, Sequences, FiniteSets

VARIABLES
    fa, fb,          \* the two FloatType operands of the current call
    fop, fret,       \* last FloatType operation called and what it returned
    ka, kb,          \* the two PrimaryKey operands
    kop, kret,       \* last PrimaryKey operation called and what it returned
    scols, spidx,    \* arguments handed to DynSchema::new
    dyn,             \* the DynSchema object (NoSchema before construction)
    sop, sret,       \* last DynSchema method called and what it returned
    cv,              \* the value handed to Encode
    writer,          \* bytes written to the sink so far
    cpc, cdec,       \* position of the encode/decode caller, decode's result
    rk,              \* the owned key whose reference form is taken
    rref,            \* the reference form as_key_ref returned
    rpc, rret        \* position of the conversion's caller, to_key's result

vars == <<fa, fb, fop, fret, ka, kb, kop, kret,
          scols, spidx, dyn, sop, sret, cv, writer, cpc, cdec,
          rk, rref, rpc, rret>>

floatVars  == <<fa, fb, fop, fret>>
keyVars    == <<ka, kb, kop, kret>>
schemaVars == <<scols, spidx, dyn, sop, sret>>
codecVars  == <<cv, writer, cpc, cdec>>
refVars    == <<rk, rref, rpc, rret>>

None == [none |-> TRUE]

(***************************************************************************)
(* Bounds of the model.                                                    *)
(***************************************************************************)
\* mantissa / NaN payload samples run over 0..MaxMant
MaxMant == 1

(***************************************************************************)
(* Fixed-width words.                                                      *)
(***************************************************************************)
RECURSIVE IntToBits(_, _)
IntToBits(n, w) ==
    IF w = 0 THEN <<>> ELSE Append(IntToBits(n \div 2, w - 1), n % 2)

RECURSIVE BitsToInt(_)
BitsToInt(bs) ==
    IF bs = <<>> THEN 0
    ELSE 2 * BitsToInt(SubSeq(bs, 1, Len(bs) - 1)) + bs[Len(bs)]

XorBits(x, y) == [i \in 1..Len(x) |-> (x[i] + y[i]) % 2]

Ones(w)  == [i \in 1..w |-> 1]
Zeros(w) == [i \in 1..w |-> 0]

\* unsigned comparison of two words of the same width
LexCmp(x, y) ==
    LET d == {i \in 1..Len(x) : x[i] # y[i]}
    IN  IF d = {} THEN "Equal"
        ELSE LET i == CHOOSE j \in d : \A k \in d : j <= k
             IN  IF x[i] < y[i] THEN "Less" ELSE "Greater"

\* two's complement comparison (i32::cmp / i64::cmp)
SignedCmp(x, y) ==
    IF x[1] # y[1]
    THEN (IF x[1] = 1 THEN "Less" ELSE "Greater")
    ELSE LexCmp(x, y)

(***************************************************************************)
(* FloatType<f32>, FloatType<f64>                                          *)
(***************************************************************************)
Width(ty)    == IF ty = "f32" THEN 32 ELSE 64
ExpWidth(ty) == IF ty = "f32" THEN 8 ELSE 11
MantWidth(ty) == Width(ty) - 1 - ExpWidth(ty)

FloatType(ty, bits) == [ty |-> ty, bits |-> bits]

\* f32::to_bits / f64::to_bits: the value's bit pattern
ToBits(f) == f.bits

\* f32::to_le_bytes: the bit pattern cut into bytes, least significant first
ToLeBytes(bits) ==
    LET n == Len(bits) \div 8
    IN  [k \in 1..n |-> BitsToInt(SubSeq(bits, 8 * (n - k) + 1, 8 * (n - k) + 8))]

\* f32::to_be_bytes
ToBeBytes(bits) ==
    LET n == Len(bits) \div 8
    IN  [k \in 1..n |-> BitsToInt(SubSeq(bits, 8 * (k - 1) + 1, 8 * (k - 1) + 8))]

\* f32::from_le_bytes
RECURSIVE FromLeBytes(_)
FromLeBytes(bytes) ==
    IF bytes = <<>> THEN <<>>
    ELSE FromLeBytes(Tail(bytes)) \o IntToBits(Head(bytes), 8)

\* f32::total_cmp:
\*   left ^= (((left >> 31) as u32) >> 1) as i32;  left.cmp(&right)
TotalCmpKey(bits) ==
    LET w    == Len(bits)
        mask == <<0>> \o [i \in 1..(w - 1) |-> bits[1]]
    IN  XorBits(bits, mask)

TotalCmp(x, y) == SignedCmp(TotalCmpKey(ToBits(x)), TotalCmpKey(ToBits(y)))

\* a slip: the raw bit patterns compared as signed integers
FloatCmpRawBits(self, other) == SignedCmp(ToBits(self), ToBits(other))

\* impl Ord for FloatType
FloatCmp(self, other) == TotalCmp(self, other)

Some(v) == [some |-> v]

\* impl PartialOrd for FloatType
FloatPartialCmp(self, other) == Some(FloatCmp(self, other))

\* the fields of a pattern
SignBit(f)   == f.bits[1]
ExpField(f)  == BitsToInt(SubSeq(f.bits, 2, 1 + ExpWidth(f.ty)))
MantField(f) == SubSeq(f.bits, 2 + ExpWidth(f.ty), Width(f.ty))
ExpMax(ty)   == BitsToInt(Ones(ExpWidth(ty)))
IsNaN(f)     == ExpField(f) = ExpMax(f.ty) /\ MantField(f) # Zeros(MantWidth(f.ty))
IsInf(f)     == ExpField(f) = ExpMax(f.ty) /\ MantField(f) = Zeros(MantWidth(f.ty))
IsZero(f)    == ExpField(f) = 0 /\ MantField(f) = Zeros(MantWidth(f.ty))

\* a slip: the language's value equality (NaN != NaN, +0.0 == -0.0)
FloatEqIeee(self, other) ==
    /\ ~IsNaN(self)
    /\ ~IsNaN(other)
    /\ \/ ToBits(self) = ToBits(other)
       \/ IsZero(self) /\ IsZero(other)

\* impl PartialEq for FloatType
FloatEq(self, other) == ToBits(self) = ToBits(other)

\* impl Hash for FloatType: the byte stream fed to the hasher
FloatHash(self) == ToLeBytes(FromLeBytes(ToLeBytes(ToBits(self))))

\* operands: both signs, extreme and middle exponents, low mantissas,
\* quiet-bit mantissas with a payload, the all-ones mantissa
ExpSamples(ty) ==
    LET m == ExpMax(ty) IN {0, 1, m \div 2, m - 1, m}

MantSamples(ty) ==
    LET w == MantWidth(ty)
    IN  {IntToBits(m, w) : m \in 0..MaxMant}
          \cup {<<1>> \o IntToBits(m, w - 1) : m \in 0..MaxMant}
          \cup {Ones(w)}

Floats(ty) ==
    {FloatType(ty, <<s>> \o IntToBits(e, ExpWidth(ty)) \o m) :
        s \in {0, 1}, e \in ExpSamples(ty), m \in MantSamples(ty)}

FloatTypes == {"f32", "f64"}

InitFloat ==
    /\ \E ty \in FloatTypes : fa \in Floats(ty) /\ fb \in Floats(ty)
    /\ fop = "none"
    /\ fret = None
    \* nothing else is in use
    /\ ka = None /\ kb = None /\ kop = "idle" /\ kret = None
    /\ scols = None /\ spidx = None /\ dyn = None /\ sop = "idle" /\ sret = None
    /\ cv = None /\ writer = <<>> /\ cpc = "idle" /\ cdec = None
    /\ rk = None /\ rref = None /\ rpc = "idle" /\ rret = None

CallCmp ==
    /\ fop # "idle"
    /\ fop' = "cmp"
    /\ fret' = FloatCmp(fa, fb)
    /\ UNCHANGED <<fa, fb>>

CallPartialCmp ==
    /\ fop # "idle"
    /\ fop' = "partial_cmp"
    /\ fret' = FloatPartialCmp(fa, fb)
    /\ UNCHANGED <<fa, fb>>

CallEq ==
    /\ fop # "idle"
    /\ fop' = "eq"
    /\ fret' = FloatEq(fa, fb)
    /\ UNCHANGED <<fa, fb>>

CallHash ==
    /\ fop # "idle"
    /\ fop' = "hash"
    /\ fret' = <<FloatHash(fa), FloatHash(fb)>>
    /\ UNCHANGED <<fa, fb>>

(***************************************************************************)
(* Value: the dynamically typed cell a PrimaryKey is made of.  Its         *)
(* definition (crate::record::Value) is not among the sources; it is taken *)
(* from the specification as a tagged union with a total order, an         *)
(* equality consistent with that order and a hash consistent with          *)
(* equality.                                                               *)
(***************************************************************************)
MaxInt   == 2
MaxArity == 2

\* the payload is kept as a sequence: one number, or the bytes of a string
IntValue(n) == [tag |-> "Int32", v |-> <<n>>]
StrValue(s) == [tag |-> "String", v |-> s]

TagRank(tag) == IF tag = "Int32" THEN 0 ELSE 1

IntCmp(x, y) == IF x < y THEN "Less" ELSE IF x > y THEN "Greater" ELSE "Equal"

\* str::cmp: byte-wise lexicographic, a proper prefix sorts first
RECURSIVE StrCmp(_, _)
StrCmp(x, y) ==
    IF x = <<>> /\ y = <<>> THEN "Equal"
    ELSE IF x = <<>> THEN "Less"
    ELSE IF y = <<>> THEN "Greater"
    ELSE IF Head(x) # Head(y) THEN IntCmp(Head(x), Head(y))
    ELSE StrCmp(Tail(x), Tail(y))

ValueCmp(l, r) ==
    IF l.tag # r.tag THEN IntCmp(TagRank(l.tag), TagRank(r.tag))
    ELSE IF l.tag = "Int32" THEN IntCmp(l.v[1], r.v[1])
    ELSE StrCmp(l.v, r.v)

ValueEq(l, r) == l.tag = r.tag /\ l.v = r.v

\* what a Value feeds the hasher
ValueHash(v) == <<v.tag, v.v>>

\* "a" = <<97>>, "x" = <<120>>, "y" = <<121>>
Values ==
    {IntValue(n) : n \in 1..MaxInt}
      \cup {StrValue(<<c>>) : c \in {97, 120, 121}}

(***************************************************************************)
(* PrimaryKey                                                              *)
(***************************************************************************)
\* PrimaryKey::new
PrimaryKeyNew(keys) == [keys |-> keys]

\* impl From<Value> for PrimaryKey
PrimaryKeyFrom(value) == [keys |-> <<value>>]

RECURSIVE CmpZip(_, _)
CmpZip(l, r) ==
    IF l = <<>> \/ r = <<>> THEN "Equal"
    ELSE LET ordering == ValueCmp(Head(l), Head(r))
         IN  IF ordering # "Equal" THEN ordering
             ELSE CmpZip(Tail(l), Tail(r))

\* a slip: Vec's own comparison, where the longer key wins an equal prefix
PrimaryKeyCmpByLen(self, other) ==
    LET ordering == CmpZip(self.keys, other.keys)
    IN  IF ordering # "Equal" THEN ordering
        ELSE IntCmp(Len(self.keys), Len(other.keys))

\* impl Ord for PrimaryKey
PrimaryKeyCmp(self, other) == CmpZip(self.keys, other.keys)

\* impl PartialOrd for PrimaryKey
PrimaryKeyPartialCmp(self, other) == Some(PrimaryKeyCmp(self, other))

RECURSIVE EqZip(_, _)
EqZip(l, r) ==
    IF l = <<>> \/ r = <<>> THEN TRUE
    ELSE IF ~ValueEq(Head(l), Head(r)) THEN FALSE
    ELSE EqZip(Tail(l), Tail(r))

\* impl PartialEq for PrimaryKey
PrimaryKeyEq(self, other) == EqZip(self.keys, other.keys)

RECURSIVE HashSlice(_)
HashSlice(vs) ==
    IF vs = <<>> THEN <<>> ELSE ValueHash(Head(vs)) \o HashSlice(Tail(vs))

\* impl Hash for PrimaryKey: Vec<Value>::hash writes the length, then each
\* element, to the hasher
PrimaryKeyHash(self) == <<Len(self.keys)>> \o HashSlice(self.keys)

SeqsUpTo(S, n) == UNION {[1..k -> S] : k \in 0..n}

PrimaryKeys ==
    {PrimaryKeyNew(vs) : vs \in SeqsUpTo(Values, MaxArity)}
      \cup {PrimaryKeyFrom(v) : v \in Values}

InitKey ==
    /\ ka \in PrimaryKeys
    /\ kb \in PrimaryKeys
    /\ kop = "none"
    /\ kret = None
    \* nothing else is in use
    /\ fa = None /\ fb = None /\ fop = "idle" /\ fret = None
    /\ scols = None /\ spidx = None /\ dyn = None /\ sop = "idle" /\ sret = None
    /\ cv = None /\ writer = <<>> /\ cpc = "idle" /\ cdec = None
    /\ rk = None /\ rref = None /\ rpc = "idle" /\ rret = None

KeyCmp ==
    /\ kop # "idle"
    /\ kop' = "cmp"
    /\ kret' = PrimaryKeyCmp(ka, kb)
    /\ UNCHANGED <<ka, kb>>

KeyPartialCmp ==
    /\ kop # "idle"
    /\ kop' = "partial_cmp"
    /\ kret' = PrimaryKeyPartialCmp(ka, kb)
    /\ UNCHANGED <<ka, kb>>

KeyEq ==
    /\ kop # "idle"
    /\ kop' = "eq"
    /\ kret' = PrimaryKeyEq(ka, kb)
    /\ UNCHANGED <<ka, kb>>

KeyHash ==
    /\ kop # "idle"
    /\ kop' = "hash"
    /\ kret' = <<PrimaryKeyHash(ka), PrimaryKeyHash(kb)>>
    /\ UNCHANGED <<ka, kb>>

(***************************************************************************)
(* DynSchema                                                               *)
(***************************************************************************)
MaxCols == 2
MaxPk   == 2
MaxIdx  == 1

\* ValueDesc { name, datatype, is_nullable }
ValueDesc(name, datatype, is_nullable) ==
    [name |-> name, datatype |-> datatype, is_nullable |-> is_nullable]

\* arrow's Field::new(name, data_type, nullable)
Field(name, data_type, nullable) ==
    [name |-> name, data_type |-> data_type, nullable |-> nullable]

\* ValueDesc::arrow_field (crate::record, not among the sources): the
\* column's name, its columnar type and its nullability
ArrowDataType(datatype) ==
    IF datatype = "String" THEN "Utf8" ELSE datatype

ArrowField(desc) ==
    Field(desc.name, ArrowDataType(desc.datatype), desc.is_nullable)

\* magic::TS, the name of the reserved sequence column
MagicTS == "_ts"

\* usize::to_string: decimal digits, most significant first
DigitChars == <<"0", "1", "2", "3", "4", "5", "6", "7", "8", "9">>

RECURSIVE ToString(_)
ToString(n) ==
    IF n < 10 THEN <<DigitChars[n + 1]>>
    ELSE ToString(n \div 10) \o <<DigitChars[(n % 10) + 1]>>

\* [String]::join(sep)
RECURSIVE Join(_, _)
Join(strs, sep) ==
    IF strs = <<>> THEN <<>>
    ELSE IF Len(strs) = 1 THEN strs[1]
    ELSE strs[1] \o sep \o Join(Tail(strs), sep)

\* a slip: the positions joined with nothing between them
PrimaryKeyMetaNoSep(primary_index) ==
    Join([i \in 1..Len(primary_index) |-> ToString(primary_index[i])], <<>>)

\* the "primary_key_index" metadata value built by DynSchema::new
PrimaryKeyMeta(primary_index) ==
    Join([i \in 1..Len(primary_index) |-> ToString(primary_index[i])], <<",">>)

\* a slip: the declared columns chained before the reserved ones
ArrowFieldsDeclaredFirst(schema) ==
    [i \in 1..Len(schema) |-> ArrowField(schema[i])]
      \o <<Field("_null", "Boolean", FALSE), Field(MagicTS, "UInt32", FALSE)>>

\* the field list built by DynSchema::new
ArrowFields(schema) ==
    <<Field("_null", "Boolean", FALSE), Field(MagicTS, "UInt32", FALSE)>>
      \o [i \in 1..Len(schema) |-> ArrowField(schema[i])]

\* DynSchema::new
DynSchemaNew(schema, primary_index) ==
    [schema        |-> schema,
     primary_index |-> primary_index,
     arrow_schema  |->
        [fields   |-> ArrowFields(schema),
         metadata |-> [k \in {"primary_key_index"} |-> PrimaryKeyMeta(primary_index)]]]

\* a slip: the positions shifted by one reserved column only
PrimaryKeyIndexShiftOne(self) ==
    [i \in 1..Len(self.primary_index) |-> self.primary_index[i] + 1]

\* DynSchema::primary_key_index
PrimaryKeyIndex(self) ==
    [i \in 1..Len(self.primary_index) |-> self.primary_index[i] + 2]

\* parquet's SortingColumn::new(column_idx, descending, nulls_first)
SortingColumn(column_idx, descending, nulls_first) ==
    [column_idx |-> column_idx, descending |-> descending,
     nulls_first |-> nulls_first]

Panic == [panic |-> TRUE]

\* self.schema[*idx] panics on a position outside the declared columns
InBounds(self) ==
    \A i \in 1..Len(self.primary_index) :
        self.primary_index[i] < Len(self.schema)

\* a slip: the declared positions used without the shift
PrimaryKeyPathUnshifted(self) ==
    IF ~InBounds(self) THEN Panic
    ELSE
      [column_path |->
          <<MagicTS>> \o [i \in 1..Len(self.primary_index) |->
                            self.schema[self.primary_index[i] + 1].name],
       sorting_column |->
          <<SortingColumn(1, TRUE, TRUE)>>
            \o [i \in 1..Len(self.primary_index) |->
                  SortingColumn(self.primary_index[i], FALSE, TRUE)]]

\* DynSchema::primary_key_path
PrimaryKeyPath(self) ==
    IF ~InBounds(self) THEN Panic
    ELSE
      [column_path |->
          <<MagicTS>> \o [i \in 1..Len(self.primary_index) |->
                            self.schema[self.primary_index[i] + 1].name],
       sorting_column |->
          <<SortingColumn(1, TRUE, TRUE)>>
            \o [i \in 1..Len(self.primary_index) |->
                  SortingColumn(self.primary_index[i] + 2, FALSE, TRUE)]]

\* the columns of the dyn_schema! example
ValueDescs ==
    {ValueDesc("foo", "String", FALSE),
     ValueDesc("bar", "Int32", TRUE),
     ValueDesc("baz", "UInt64", TRUE)}

\* declared positions: the small ones and two of several digits
Indices == (0..MaxIdx) \cup {10, 12}

InitSchema ==
    /\ scols \in SeqsUpTo(ValueDescs, MaxCols)
    /\ spidx \in SeqsUpTo(Indices, MaxPk)
    /\ dyn = None
    /\ sop = "none"
    /\ sret = None
    \* nothing else is in use
    /\ fa = None /\ fb = None /\ fop = "idle" /\ fret = None
    /\ ka = None /\ kb = None /\ kop = "idle" /\ kret = None
    /\ cv = None /\ writer = <<>> /\ cpc = "idle" /\ cdec = None
    /\ rk = None /\ rref = None /\ rpc = "idle" /\ rret = None

New ==
    /\ sop # "idle"
    /\ dyn = None
    /\ dyn' = DynSchemaNew(scols, spidx)
    /\ sop' = "new"
    /\ sret' = None
    /\ UNCHANGED <<scols, spidx>>

CallArrowSchema ==
    /\ dyn # None
    /\ sop' = "arrow_schema"
    /\ sret' = dyn.arrow_schema
    /\ UNCHANGED <<scols, spidx, dyn>>

CallPrimaryKeyIndex ==
    /\ dyn # None
    /\ sop' = "primary_key_index"
    /\ sret' = PrimaryKeyIndex(dyn)
    /\ UNCHANGED <<scols, spidx, dyn>>

CallPrimaryKeyPath ==
    /\ dyn # None
    /\ sop' = "primary_key_path"
    /\ sret' = PrimaryKeyPath(dyn)
    /\ UNCHANGED <<scols, spidx, dyn>>

(***************************************************************************)
(* Encode / Decode for FloatType and TimestampType                         *)
(***************************************************************************)
MaxTs == 1

\* TimestampType<UNIT>(i64)
TimestampType(unit, bits) == [ty |-> "ts", unit |-> unit, bits |-> bits]

\* i64 as a 64-bit two's complement word
I64(n) ==
    IF n >= 0 THEN IntToBits(n, 64)
    ELSE XorBits(IntToBits(-n - 1, 64), Ones(64))

I64Samples ==
    {I64(n) : n \in (-MaxTs..MaxTs) \cup {1000}}
      \cup {<<1>> \o Zeros(63), <<0>> \o Ones(63)}

Units == 0..3

Timestamps == {TimestampType(u, b) : u \in Units, b \in I64Samples}

Ok(v) == [ok |-> v]
Err   == [err |-> TRUE]

\* size_of::<FloatType<f32>>() = 4, size_of::<FloatType<f64>>() = 8
FloatSize(self) == IF self.ty = "f32" THEN 4 ELSE 8

\* a slip: the bytes written most significant first
FloatEncodeBigEndian(self) == ToBeBytes(ToBits(self))

\* Encode for FloatType: writer.write_all(&self.to_le_bytes()[..])
FloatEncode(self) == ToLeBytes(ToBits(self))

\* Decode for FloatType: read_exact into [0u8; size_of::<Self>()]
FloatDecode(ty, reader) ==
    LET n == FloatSize([ty |-> ty])
    IN  IF Len(reader) < n THEN Err
        ELSE Ok(FloatType(ty, FromLeBytes(SubSeq(reader, 1, n))))

\* Encode for TimestampType: self.0.size()
TimestampSize(self) == 8

\* Encode for TimestampType: self.0.encode(writer), the i64's bytes
TimestampEncode(self) == ToLeBytes(self.bits)

\* Decode for TimestampType: i64::decode(reader), then Self(value)
TimestampDecode(unit, reader) ==
    IF Len(reader) < 8 THEN Err
    ELSE Ok(TimestampType(unit, FromLeBytes(SubSeq(reader, 1, 8))))

Size(v)   == IF v.ty = "ts" THEN TimestampSize(v) ELSE FloatSize(v)
Encode(v) == IF v.ty = "ts" THEN TimestampEncode(v) ELSE FloatEncode(v)
Decode(v, reader) ==
    IF v.ty = "ts" THEN TimestampDecode(v.unit, reader)
    ELSE FloatDecode(v.ty, reader)

InitCodec ==
    /\ cv \in Floats("f32") \cup Floats("f64") \cup Timestamps
    /\ writer = <<>>
    /\ cpc = "start"
    /\ cdec = None
    \* nothing else is in use
    /\ fa = None /\ fb = None /\ fop = "idle" /\ fret = None
    /\ ka = None /\ kb = None /\ kop = "idle" /\ kret = None
    /\ scols = None /\ spidx = None /\ dyn = None /\ sop = "idle" /\ sret = None
    /\ rk = None /\ rref = None /\ rpc = "idle" /\ rret = None

\* v.encode(&mut writer)
CallEncode ==
    /\ cpc = "start"
    /\ writer' = writer \o Encode(cv)
    /\ cpc' = "encoded"
    /\ UNCHANGED <<cv, cdec>>

\* T::decode(&mut reader) over the bytes written so far, T the type of v
CallDecode ==
    /\ cpc \in {"start", "encoded"}
    /\ cdec' = Decode(cv, writer)
    /\ writer' = IF cdec' = Err THEN writer
                 ELSE SubSeq(writer, Size(cv) + 1, Len(writer))
    /\ cpc' = IF cdec' = Err THEN "failed" ELSE "decoded"
    /\ UNCHANGED cv

(***************************************************************************)
(* Key / KeyRef: the reference form of an owned key and back               *)
(***************************************************************************)
MaxKeyInt == 1

\* implement_key!(i8 .. u64): the eight integer key types and their widths
IntTypes == {"i8", "i16", "i32", "i64", "u8", "u16", "u32", "u64"}

IntWidth(ty) ==
    IF ty \in {"i8", "u8"} THEN 8
    ELSE IF ty \in {"i16", "u16"} THEN 16
    ELSE IF ty \in {"i32", "u32"} THEN 32
    ELSE 64

IntKey(ty, bits) == [ty |-> ty, bits |-> bits]

\* low values, the all-ones word, and the two words that differ from the
\* extremes in the top bit only
IntKeys ==
    UNION {{IntKey(ty, IntToBits(n, IntWidth(ty))) : n \in 0..MaxKeyInt}
             \cup {IntKey(ty, Ones(IntWidth(ty))),
                   IntKey(ty, <<1>> \o Zeros(IntWidth(ty) - 1)),
                   IntKey(ty, <<0>> \o Ones(IntWidth(ty) - 1))} :
           ty \in IntTypes}

IsPrimaryKey(k) == "keys" \in DOMAIN k

\* Key::as_key_ref: `*self` for the integer, float and timestamp keys,
\* todo!() for PrimaryKey
AsKeyRef(self) == IF IsPrimaryKey(self) THEN Panic ELSE self

\* KeyRef::to_key: `self` for the integer, float and timestamp keys,
\* todo!() for PrimaryKey
ToKey(self) == IF IsPrimaryKey(self) THEN Panic ELSE self

OwnedKeys ==
    IntKeys \cup Floats("f32") \cup Floats("f64") \cup Timestamps
      \cup PrimaryKeys

InitRef ==
    /\ rk \in OwnedKeys
    /\ rref = None
    /\ rpc = "start"
    /\ rret = None
    \* nothing else is in use
    /\ fa = None /\ fb = None /\ fop = "idle" /\ fret = None
    /\ ka = None /\ kb = None /\ kop = "idle" /\ kret = None
    /\ scols = None /\ spidx = None /\ dyn = None /\ sop = "idle" /\ sret = None
    /\ cv = None /\ writer = <<>> /\ cpc = "idle" /\ cdec = None

\* k.as_key_ref()
CallAsKeyRef ==
    /\ rpc = "start"
    /\ LET r == AsKeyRef(rk)
       IN  IF r = Panic
           THEN rref' = None /\ rpc' = "panicked"
           ELSE rref' = r /\ rpc' = "ref"
    /\ UNCHANGED <<rk, rret>>

\* r.to_key() on the reference form as_key_ref returned
CallToKey ==
    /\ rpc = "ref"
    /\ LET k == ToKey(rref)
       IN  IF k = Panic
           THEN rret' = None /\ rpc' = "panicked"
           ELSE rret' = k /\ rpc' = "owned"
    /\ UNCHANGED <<rk, rref>>

\* a PrimaryKey is its own reference type (type Ref<'r> = PrimaryKey), so
\* to_key can be called on one that did not come from as_key_ref
CallToKeyOnPrimaryKey ==
    /\ rpc = "start"
    /\ IsPrimaryKey(rk)
    /\ rref' = rk
    /\ LET k == ToKey(rk)
       IN  IF k = Panic
           THEN rret' = None /\ rpc' = "panicked"
           ELSE rret' = k /\ rpc' = "owned"
    /\ UNCHANGED rk

NextFloat ==
    \/ CallCmp /\ UNCHANGED <<keyVars, schemaVars, codecVars, refVars>>
    \/ CallPartialCmp /\ UNCHANGED <<keyVars, schemaVars, codecVars, refVars>>
    \/ CallEq /\ UNCHANGED <<keyVars, schemaVars, codecVars, refVars>>
    \/ CallHash /\ UNCHANGED <<keyVars, schemaVars, codecVars, refVars>>

SpecFloat ==
    /\ InitFloat
    /\ [][NextFloat]_vars

NextKey ==
    \/ KeyCmp /\ UNCHANGED <<floatVars, schemaVars, codecVars, refVars>>
    \/ KeyPartialCmp /\ UNCHANGED <<floatVars, schemaVars, codecVars, refVars>>
    \/ KeyEq /\ UNCHANGED <<floatVars, schemaVars, codecVars, refVars>>
    \/ KeyHash /\ UNCHANGED <<floatVars, schemaVars, codecVars, refVars>>

SpecKey ==
    /\ InitKey
    /\ [][NextKey]_vars

NextSchema ==
    \/ New /\ UNCHANGED <<floatVars, keyVars, codecVars, refVars>>
    \/ CallArrowSchema /\ UNCHANGED <<floatVars, keyVars, codecVars, refVars>>
    \/ CallPrimaryKeyIndex /\ UNCHANGED <<floatVars, keyVars, codecVars, refVars>>
    \/ CallPrimaryKeyPath /\ UNCHANGED <<floatVars, keyVars, codecVars, refVars>>

SpecSchema ==
    /\ InitSchema
    /\ [][NextSchema]_vars

NextCodec ==
    \/ CallEncode /\ UNCHANGED <<floatVars, keyVars, schemaVars, refVars>>
    \/ CallDecode /\ UNCHANGED <<floatVars, keyVars, schemaVars, refVars>>

SpecCodec ==
    /\ InitCodec
    /\ [][NextCodec]_vars

NextRef ==
    \/ CallAsKeyRef /\ UNCHANGED <<floatVars, keyVars, schemaVars, codecVars>>
    \/ CallToKey /\ UNCHANGED <<floatVars, keyVars, schemaVars, codecVars>>
    \/ CallToKeyOnPrimaryKey
         /\ UNCHANGED <<floatVars, keyVars, schemaVars, codecVars>>

SpecRef ==
    /\ InitRef
    /\ [][NextRef]_vars

Next == NextFloat \/ NextKey \/ NextSchema \/ NextCodec \/ NextRef

Init == InitFloat \/ InitKey \/ InitSchema \/ InitCodec \/ InitRef

Spec == Init /\ [][Next]_vars

(***************************************************************************)
(* Properties                                                              *)
(***************************************************************************)
Min(x, y) == IF x <= y THEN x ELSE y

\* IEEE-754 totalOrder stated on sign and magnitude: a negative pattern is
\* below a positive one, positive patterns order by magnitude, negative
\* patterns by reversed magnitude
Magnitude(f) == Tail(f.bits)

IeeeTotalOrder(a, b) ==
    IF SignBit(a) # SignBit(b)
    THEN (IF SignBit(a) = 1 THEN "Less" ELSE "Greater")
    ELSE IF SignBit(a) = 0 THEN LexCmp(Magnitude(a), Magnitude(b))
    ELSE LexCmp(Magnitude(b), Magnitude(a))

\* -NaN < -Inf < negative finite < -0.0 < +0.0 < positive finite < +Inf < +NaN
Rank(f) ==
    IF IsNaN(f) THEN (IF SignBit(f) = 1 THEN 0 ELSE 7)
    ELSE IF IsInf(f) THEN (IF SignBit(f) = 1 THEN 1 ELSE 6)
    ELSE IF IsZero(f) THEN (IF SignBit(f) = 1 THEN 3 ELSE 4)
    ELSE (IF SignBit(f) = 1 THEN 2 ELSE 5)

\* C1: cmp on FloatType is the IEEE-754 total order over bit patterns: the
\* classes -NaN, -Inf, negative finite, -0.0, +0.0, positive finite, +Inf,
\* +NaN are strictly ordered in that sequence, and partial_cmp returns Some
\* of the same ordering.
C1_FloatTotalOrder ==
    /\ fop = "cmp" =>
         /\ fret = IeeeTotalOrder(fa, fb)
         /\ Rank(fa) < Rank(fb) => fret = "Less"
         /\ Rank(fa) > Rank(fb) => fret = "Greater"
    /\ fop = "partial_cmp" =>
         /\ fret = Some(IeeeTotalOrder(fa, fb))
         /\ Rank(fa) < Rank(fb) => fret = Some("Less")

\* a negative NaN has been compared with -Infinity and found Less
C1_Witness ==
    /\ fop = "cmp"
    /\ IsNaN(fa) /\ SignBit(fa) = 1
    /\ IsInf(fb) /\ SignBit(fb) = 1
    /\ fret = "Less"

\* byte k (counted from 0) of the little-endian representation: bits
\* 8k .. 8k+7 counted from the least significant
RECURSIVE BitSum(_, _, _)
BitSum(bits, k, j) ==
    IF j < 0 THEN 0
    ELSE 2 * BitSum(bits, k, j - 1) + bits[Len(bits) - (8 * k + 7 - j)]

LeByte(bits, k) == BitSum(bits, k, 7)

SameFields(a, b) ==
    /\ SignBit(a) = SignBit(b)
    /\ ExpField(a) = ExpField(b)
    /\ MantField(a) = MantField(b)

\* C2: a == b on FloatType exactly when sign, exponent and mantissa fields
\* are identical, which is exactly when cmp(a, b) = Equal; and a == b
\* implies that both feed the hasher the same bytes, which are the bytes of
\* the bit pattern and nothing else.
C2_FloatEqHash ==
    /\ fop = "eq" =>
         /\ fret <=> SameFields(fa, fb)
         /\ fret <=> (FloatCmp(fa, fb) = "Equal")
    /\ fop = "hash" =>
         /\ FloatEq(fa, fb) => fret[1] = fret[2]
         /\ Len(fret[1]) * 8 = Width(fa.ty)
         /\ \A k \in 0..(Len(fret[1]) - 1) : fret[1][k + 1] = LeByte(fa.bits, k)

\* two NaNs of the same bit pattern have been compared and found equal
C2_Witness ==
    /\ fop = "eq"
    /\ IsNaN(fa)
    /\ fa = fb
    /\ fret = TRUE

\* the ordering of the first paired position whose values differ
FirstDifference(a, b) ==
    LET d == {i \in 1..Min(Len(a.keys), Len(b.keys)) :
                 ValueCmp(a.keys[i], b.keys[i]) # "Equal"}
    IN  IF d = {} THEN "Equal"
        ELSE LET i == CHOOSE j \in d : \A k \in d : j <= k
             IN  ValueCmp(a.keys[i], b.keys[i])

\* C3: cmp on PrimaryKey returns the ordering of the first paired position
\* whose values differ and Equal when none does, keys of different length
\* being compared on their overlapping prefix only; a == b exactly when
\* cmp(a, b) = Equal.
C3_PrimaryKeyCmp ==
    /\ kop = "cmp" => kret = FirstDifference(ka, kb)
    /\ kop = "partial_cmp" => kret = Some(FirstDifference(ka, kb))
    /\ kop = "eq" => (kret <=> (PrimaryKeyCmp(ka, kb) = "Equal"))

\* [1, "x"] has been compared with [1] and found Equal
C3_Witness ==
    /\ kop = "cmp"
    /\ ka = PrimaryKeyNew(<<IntValue(1), StrValue(<<120>>)>>)
    /\ kb = PrimaryKeyNew(<<IntValue(1)>>)
    /\ kret = "Equal"

\* C4: the hash of a PrimaryKey is consistent with its equality: a == b
\* implies that a and b feed the hasher the same stream.
C4_HashConsistentWithEq ==
    kop = "hash" => (PrimaryKeyEq(ka, kb) => kret[1] = kret[2])

Reverse(o) ==
    IF o = "Less" THEN "Greater" ELSE IF o = "Greater" THEN "Less" ELSE "Equal"

\* C5: cmp on PrimaryKey is a strict total order over keys of any arity:
\* Equal is transitive, Less is transitive, and cmp(a, b) is the reverse of
\* cmp(b, a).
C5_StrictTotalOrder ==
    kop = "cmp" =>
        /\ kret = Reverse(PrimaryKeyCmp(kb, ka))
        /\ \A c \in PrimaryKeys :
             /\ (kret = "Equal" /\ PrimaryKeyCmp(kb, c) = "Equal")
                  => PrimaryKeyCmp(ka, c) = "Equal"
             /\ (kret = "Less" /\ PrimaryKeyCmp(kb, c) = "Less")
                  => PrimaryKeyCmp(ka, c) = "Less"

\* C6: primary_key_index() returns primary_index, in its order, with every
\* entry shifted by the 2 reserved leading columns, and leaves the schema
\* as new() built it.
C6_PrimaryKeyIndex ==
    sop = "primary_key_index" =>
        /\ Len(sret) = Len(spidx)
        /\ \A i \in 1..Len(spidx) : sret[i] = spidx[i] + 2
        /\ dyn = DynSchemaNew(scols, spidx)

\* primary_key_index() has been called on a schema of two key columns
C6_Witness ==
    /\ sop = "primary_key_index"
    /\ Len(spidx) = 2
    /\ spidx[1] # spidx[2]

\* the shape of primary_key_path()'s result for a schema whose key positions
\* are valid, with the given nulls_first flag on every sort entry
PathShape(nullsFirst) ==
    LET n == Len(dyn.primary_index)
        fields == dyn.arrow_schema.fields
    IN  /\ Len(sret.column_path) = n + 1
        /\ Len(sret.sorting_column) = n + 1
        /\ sret.column_path[1] = fields[2].name
        /\ sret.sorting_column[1].column_idx = 1
        /\ sret.sorting_column[1].descending = TRUE
        /\ sret.sorting_column[1].nulls_first = nullsFirst
        /\ \A i \in 1..n :
             LET idx == dyn.primary_index[i]
             IN  /\ sret.column_path[i + 1] = scols[idx + 1].name
                 /\ sret.column_path[i + 1] = fields[idx + 2 + 1].name
                 /\ sret.sorting_column[i + 1].column_idx = idx + 2
                 /\ sret.sorting_column[i + 1].descending = FALSE
                 /\ sret.sorting_column[i + 1].nulls_first = nullsFirst

\* C7 as stated: with valid key positions primary_key_path() returns the
\* sequence column at position 1 descending with nulls last, then every key
\* column at its shifted position ascending with nulls last.
C7_PathNullsLast ==
    (sop = "primary_key_path" /\ InBounds(dyn)) => PathShape(FALSE)

\* C7 amended: the same path and sort lists, every sort entry with nulls
\* first.
C7_PathNullsFirst ==
    (sop = "primary_key_path" /\ InBounds(dyn)) => PathShape(TRUE)

\* primary_key_path() has returned for a schema of two valid key columns
C7_Witness ==
    /\ sop = "primary_key_path"
    /\ Len(dyn.primary_index) = 2
    /\ InBounds(dyn)
    /\ sret # Panic

\* C8: the derived columnar schema of n declared columns has n + 2 fields:
\* the non-nullable boolean deletion marker, the non-nullable unsigned
\* 32-bit sequence column, then the field of every declared column in
\* declaration order.
C8_ArrowSchemaLayout ==
    sop = "arrow_schema" =>
        LET f == sret.fields
        IN  /\ Len(f) = Len(scols) + 2
            /\ f[1].data_type = "Boolean" /\ f[1].nullable = FALSE
            /\ f[2].data_type = "UInt32" /\ f[2].nullable = FALSE
            /\ f[2].name = MagicTS
            /\ \A i \in 1..Len(scols) :
                 /\ f[i + 2] = ArrowField(scols[i])
                 /\ f[i + 2].name = scols[i].name
                 /\ f[i + 2].nullable = scols[i].is_nullable

\* the derived schema of two declared columns has been read
C8_Witness ==
    /\ sop = "arrow_schema"
    /\ Len(scols) = 2
    /\ scols[1] # scols[2]

\* str::split(','): the pieces between the commas; the empty string is one
\* empty piece
RECURSIVE SplitOnComma(_)
SplitOnComma(s) ==
    LET c == {i \in 1..Len(s) : s[i] = ","}
    IN  IF c = {} THEN <<s>>
        ELSE LET i == CHOOSE j \in c : \A k \in c : j <= k
             IN  <<SubSeq(s, 1, i - 1)>> \o SplitOnComma(SubSeq(s, i + 1, Len(s)))

DigitValue(ch) == CHOOSE d \in 0..9 : DigitChars[d + 1] = ch

IsDigit(ch) == \E d \in 0..9 : DigitChars[d + 1] = ch

\* str::parse::<usize>: the number written by decimal digits, -1 for a
\* string that is empty or holds anything else
RECURSIVE ParseDigits(_)
ParseDigits(s) ==
    IF s = <<>> THEN 0
    ELSE 10 * ParseDigits(SubSeq(s, 1, Len(s) - 1)) + DigitValue(s[Len(s)])

ParseUsize(s) ==
    IF s = <<>> \/ \E i \in 1..Len(s) : ~IsDigit(s[i]) THEN -1
    ELSE ParseDigits(s)

ParseIndexList(s) ==
    LET pieces == SplitOnComma(s)
    IN  [i \in 1..Len(pieces) |-> ParseUsize(pieces[i])]

MetaOf(d) == d.arrow_schema.metadata["primary_key_index"]

MetaIsDecimalCommaList(d) ==
    \A i \in 1..Len(MetaOf(d)) : IsDigit(MetaOf(d)[i]) \/ MetaOf(d)[i] = ","

\* C9 as stated: the "primary_key_index" metadata holds the declared
\* positions in decimal joined by commas, and splitting it on commas and
\* parsing recovers primary_index, for every primary_index.
C9_MetaRoundTrip ==
    dyn # None =>
        /\ MetaIsDecimalCommaList(dyn)
        /\ ParseIndexList(MetaOf(dyn)) = spidx

\* C9 amended: the same, the recovery holding for every primary_index that
\* is not empty (the empty one is written as the empty string, which splits
\* into one empty piece that does not parse).
C9_MetaRoundTripNonEmpty ==
    dyn # None =>
        /\ MetaIsDecimalCommaList(dyn)
        /\ spidx # <<>> => ParseIndexList(MetaOf(dyn)) = spidx
        /\ spidx = <<>> => MetaOf(dyn) = <<>>

\* a schema has been built whose two key positions include one of two digits
C9_Witness ==
    /\ dyn # None
    /\ Len(spidx) = 2
    /\ spidx[1] >= 10
    /\ spidx[2] < 10

\* C10: encode writes exactly size(v) bytes (4 for f32, 8 for f64 and for
\* a timestamp of any unit), they are the little-endian representation of
\* the value, and decode of those bytes returns the value with the
\* identical bit pattern.
C10_EncodeDecodeRoundTrip ==
    /\ cpc = "encoded" =>
         /\ Len(writer) = Size(cv)
         /\ Size(cv) = (IF cv.ty = "f32" THEN 4 ELSE 8)
         /\ \A k \in 0..(Len(writer) - 1) : writer[k + 1] = LeByte(cv.bits, k)
    /\ cpc = "decoded" =>
         /\ cdec = Ok(cv)
         /\ cdec.ok.bits = cv.bits
         /\ writer = <<>>

\* a negative NaN with a payload has been encoded and decoded again
C10_Witness ==
    /\ cpc = "decoded"
    /\ cv.ty = "f32"
    /\ IsNaN(cv) /\ SignBit(cv) = 1
    /\ MantField(cv)[1] = 0
    /\ cdec = Ok(cv)

\* C11: for every key type and every owned key k, taking the reference form
\* and converting it back completes without failing and yields the owned
\* key: k.as_key_ref().to_key() == k.
C11_KeyRefRoundTrip ==
    /\ rpc # "panicked"
    /\ rpc = "owned" => rret = rk

=============================================================================
